---- MODULE Spec2Model ----
(***************************************************************************)
(* Versioned content-resource store: ContentResourceRepository (create,    *)
(* findById, findByType, update, softDelete, getVersionHistory, addTags)   *)
(* over the four tables content_resources, content_versions, tags and      *)
(* content_resource_tags.                                                  *)
(*                                                                         *)
(* Storage model.  `committed` holds the committed rows of the four        *)
(* tables.  A statement issued on a transaction handle (tx) is appended to *)
(* `pending`; db.transaction commits the callback's statements when the    *)
(* callback returns and discards them when it throws.  Every read, whether *)
(* issued on tx or on this.db, sees View: the committed rows with the      *)
(* statements of the open transactions applied.  (update() reads through   *)
(* this.db inside its callback and its tests expect that read to show the  *)
(* callback's own uncommitted writes.)  Every `await` is one step.         *)
(*                                                                         *)
(* Data.  Ids come from crypto.randomUUID(): fresh.  A resource or version *)
(* takes the number of the call that inserts it, a tag the next tag number.*)
(* The repository never inspects a content payload, a field map or a user  *)
(* id, so the n-th call carries payload n in each of them.  Types and      *)
(* labels are compared by the code and range over small sets.  The         *)
(* created_at columns of resources, tags and links are written once and    *)
(* never read; they are left out.                                          *)
(***************************************************************************)
EXTENDS Integers, Sequences, FiniteSets, TLC

\* ---------------------------------------------------------------- bounds
MaxResources == 2
MaxVersions == 3
MaxTagRows == 2
MaxTime == 1
MaxCalls == 3

\* ------------------------------------------------------- input domains
Procs == {1, 2}
Types == {"article", "page"}
Labels == {"a", "b"}
TagLists == {<<>>, <<"a">>, <<"b">>, <<"a", "b">>, <<"a", "a">>}
WorkflowState == {"draft", "in_review", "approved", "published", "archived"}

\* a nullable id column holding NULL, and an id no row ever has
NoId == 0
\* a nullable timestamp column holding NULL
NoTime == -1
\* a nullable column holding NULL, an input key left out
Null == NoId

\* the empty string and a string of white space, as an id or a user id
EmptyString == -2
BlankString == -3

VARIABLES committed, pending, now, nextTagId, proc, calls, svc

vars == <<committed, pending, now, nextTagId, proc, calls, svc>>

\* ------------------------------------------------------------- storage
EmptyDb == [resources |-> <<>>, versions |-> <<>>, tags |-> <<>>, links |-> {}]

SetRow(table, id, row) == [x \in DOMAIN table \cup {id} |-> IF x = id THEN row ELSE table[x]]

\* one statement applied to the tables
ApplyOp(db, op) ==
    CASE op.kind = "insertResource" -> [db EXCEPT !.resources = SetRow(@, op.id, op.row)]
      [] op.kind = "insertVersion" -> [db EXCEPT !.versions = SetRow(@, op.id, op.row)]
      [] op.kind = "insertTag" -> [db EXCEPT !.tags = SetRow(@, op.id, op.row)]
      [] op.kind = "insertLink" -> [db EXCEPT !.links = @ \cup {op.row}]
      [] op.kind = "deleteLinks" -> [db EXCEPT !.links = {l \in @ : l.resourceId # op.id}]
      [] op.kind = "setFields" ->
            IF op.id \in DOMAIN db.resources
            THEN [db EXCEPT !.resources[op.id].fields = op.row.fields,
                            !.resources[op.id].updatedAt = op.row.updatedAt]
            ELSE db
      [] op.kind = "setCurrentVersion" ->
            IF op.id \in DOMAIN db.resources
            THEN [db EXCEPT !.resources[op.id].currentVersionId = op.row.currentVersionId,
                            !.resources[op.id].updatedAt =
                                IF op.row.updatedAt = NoTime THEN @ ELSE op.row.updatedAt]
            ELSE db
      [] op.kind = "softDelete" ->
            IF op.id \in DOMAIN db.resources
            THEN [db EXCEPT !.resources[op.id].deletedAt = op.row.deletedAt,
                            !.resources[op.id].updatedAt = op.row.updatedAt]
            ELSE db

RECURSIVE ApplyAll(_, _)
ApplyAll(db, ops) ==
    IF ops = <<>> THEN db ELSE ApplyAll(ApplyOp(db, Head(ops).op), Tail(ops))

OpsOf(p) == SelectSeq(pending, LAMBDA e : e.tx = p)
OpsNotOf(p) == SelectSeq(pending, LAMBDA e : e.tx # p)

\* what a read on the storage handle sees
View == ApplyAll(committed, pending)

\* ---------------------------------------------------------------- reads
TagsOf(db, id) ==
    {[tagId |-> l.tagId,
      label |-> IF l.tagId \in DOMAIN db.tags THEN db.tags[l.tagId].label ELSE "null"] :
        l \in {k \in db.links : k.resourceId = id}}

CurrentVersionOf(db, id) ==
    {db.versions[v] : v \in {w \in DOMAIN db.versions : w = db.resources[id].currentVersionId}}

\* the denormalized shape: the resource row with its current version and tags
Denormalized(db, id) ==
    [row |-> db.resources[id], currentVersion |-> CurrentVersionOf(db, id), tags |-> TagsOf(db, id)]

\* (mutant) findById without isNull(deletedAt)
FindByIdNoFilter(db, id) ==
    IF id \in DOMAIN db.resources THEN {Denormalized(db, id)} ELSE {}

\* findById: the empty set is the null result
FindById(db, id) ==
    IF id \in DOMAIN db.resources /\ db.resources[id].deletedAt = NoTime
    THEN {Denormalized(db, id)}
    ELSE {}

\* (mutant) findByType without eq(type)
FindByTypeAnyType(db, type) ==
    {Denormalized(db, id) : id \in {r \in DOMAIN db.resources : db.resources[r].deletedAt = NoTime}}

FindByType(db, type) ==
    {Denormalized(db, id) : id \in {r \in DOMAIN db.resources :
        db.resources[r].type = type /\ db.resources[r].deletedAt = NoTime}}

RECURSIVE Orders(_)
Orders(S) ==
    IF S = {} THEN {<<>>}
    ELSE UNION {{<<x>> \o s : s \in Orders(S \ {x})} : x \in S}

\* (mutant) getVersionHistory leaves out the versions of a soft-deleted resource
GetVersionHistoryLive(db, id) ==
    {s \in Orders({v \in DOMAIN db.versions :
                      /\ db.versions[v].resourceId = id
                      /\ id \in DOMAIN db.resources => db.resources[id].deletedAt = NoTime}) :
        \A i \in 1..(Len(s) - 1) : db.versions[s[i]].createdAt <= db.versions[s[i + 1]].createdAt}

\* getVersionHistory: the orders ORDER BY created_at allows (rows with equal
\* created_at come in no determined order)
GetVersionHistory(db, id) ==
    {s \in Orders({v \in DOMAIN db.versions : db.versions[v].resourceId = id}) :
        \A i \in 1..(Len(s) - 1) : db.versions[s[i]].createdAt <= db.versions[s[i + 1]].createdAt}

\* ------------------------------------------------------------ processes
NoInput ==
    [type |-> "none", createdById |-> Null, fields |-> Null, content |-> Null,
     hasTags |-> FALSE, tags |-> <<>>, state |-> "none"]

IdleProc ==
    [pc |-> "idle", op |-> "none", call |-> NoId, id |-> NoId, input |-> NoInput, by |-> Null,
     resource |-> {}, vid |-> NoId, i |-> NoId, tag |-> NoId,
     ret |-> {}, history |-> <<>>, err |-> "none", snap |-> EmptyDb]

\* the number of the call being made: its payload, and the id of the rows it inserts
Payload == calls + 1

\* a process takes its next call once the last one has returned or thrown
Ready(p) == proc[p].pc \in {"idle", "done", "failed"} /\ calls < MaxCalls

Called(op, id, input) ==
    [IdleProc EXCEPT !.op = op, !.call = Payload, !.id = id, !.input = input, !.snap = committed]

\* tags?: string[] -- omitted, or a list of labels
OptionalTags ==
    {[hasTags |-> FALSE, tags |-> <<>>]} \cup {[hasTags |-> TRUE, tags |-> l] : l \in TagLists}

\* fields? is omitted (Null) or given; content is required
CreateContentResourceInput ==
    {[type |-> t, createdById |-> Payload, fields |-> f, content |-> Payload,
      hasTags |-> g.hasTags, tags |-> g.tags, state |-> "none"] :
        t \in Types, f \in {Null, Payload}, g \in OptionalTags}

\* state?: WorkflowState -- omitted ("none"), or one of the five values
OptionalState == {"none"} \cup WorkflowState

\* every key is optional
UpdateContentResourceInput ==
    {[type |-> "none", createdById |-> Null, fields |-> f, content |-> c,
      hasTags |-> g.hasTags, tags |-> g.tags, state |-> st] :
        f \in {Null, Payload}, c \in {Null, Payload}, g \in OptionalTags, st \in OptionalState}

\* ids a caller can name: the ids of the rows there are, and one no row has
KnownIds == DOMAIN View.resources \cup {NoId}

InTx == {"c_version", "c_pointer", "u_fields", "u_version", "u_pointer", "u_deltags",
         "t_find", "t_insert", "t_link", "u_read", "commit"}

Set(p, fields) == proc' = [proc EXCEPT ![p] = fields]

\* a statement issued on the transaction handle
TxWrite(p, kind, id, row) ==
    pending' = Append(pending, [tx |-> p, op |-> [kind |-> kind, id |-> id, row |-> row]])

\* a statement issued on this.db outside any transaction: committed at once
DbWrite(kind, id, row) ==
    committed' = ApplyOp(committed, [kind |-> kind, id |-> id, row |-> row])

\* (mutant) the statements were not issued inside a transaction: each was committed
\* as it ran, and the throw undoes nothing
RollbackNothing(p, err) ==
    /\ committed' = ApplyAll(committed, OpsOf(p))
    /\ pending' = OpsNotOf(p)
    /\ Set(p, [proc[p] EXCEPT !.pc = "failed", !.err = err])
    /\ UNCHANGED <<now, nextTagId, calls>>

\* the transaction callback threw: its statements are discarded
Rollback(p, err) ==
    /\ pending' = OpsNotOf(p)
    /\ Set(p, [proc[p] EXCEPT !.pc = "failed", !.err = err])
    /\ UNCHANGED <<committed, now, nextTagId, calls>>

\* ----------------------------------------------------------------- create
\* lines 30-42: the transaction opens and the resource row is inserted
CreateBegin(p, input) ==
    /\ Ready(p)
    /\ Cardinality(DOMAIN View.resources) < MaxResources
    /\ Cardinality(DOMAIN View.versions) < MaxVersions
    /\ LET row == [id |-> Payload, type |-> input.type,
                   createdById |-> input.createdById,
                   fields |-> input.fields,
                   currentVersionId |-> NoId, state |-> "draft",
                   updatedAt |-> now, deletedAt |-> NoTime]
       IN /\ TxWrite(p, "insertResource", Payload, row)
          /\ Set(p, [Called("create", Payload, input) EXCEPT !.pc = "c_version", !.resource = {row}])
    /\ calls' = calls + 1
    /\ UNCHANGED <<committed, now, nextTagId>>

\* the version row create() and update() insert
VersionRow(id, resourceId, content, createdById) ==
    [id |-> id, resourceId |-> resourceId, content |-> content,
     createdById |-> createdById, createdAt |-> now]

\* (mutant) the version id is made up now and the row inserted later: the pointer
\* update comes before the version insert
CreateVersionDeferred(p) ==
    /\ proc[p].pc = "c_version"
    /\ Set(p, [proc[p] EXCEPT !.pc = "c_pointer", !.vid = proc[p].call])
    /\ UNCHANGED <<committed, pending, now, nextTagId, calls>>

\* lines 45-54
CreateVersion(p) ==
    /\ proc[p].pc = "c_version"
    /\ TxWrite(p, "insertVersion", proc[p].call,
               VersionRow(proc[p].call, proc[p].id, proc[p].input.content,
                          proc[p].input.createdById))
    /\ Set(p, [proc[p] EXCEPT !.pc = "c_pointer", !.vid = proc[p].call])
    /\ UNCHANGED <<committed, now, nextTagId, calls>>

\* where create goes after the pointer update: if (input.tags?.length)
AfterCreatePointer(input) ==
    IF input.hasTags /\ Len(input.tags) > 0 THEN "t_find" ELSE "commit"

\* (mutant) the pointer update is left out
CreatePointerSkipped(p) ==
    /\ proc[p].pc = "c_pointer"
    /\ Set(p, [proc[p] EXCEPT !.pc = AfterCreatePointer(proc[p].input), !.i = 1])
    /\ UNCHANGED <<committed, pending, now, nextTagId, calls>>

\* lines 57-60
CreatePointer(p) ==
    /\ proc[p].pc = "c_pointer"
    /\ TxWrite(p, "setCurrentVersion", proc[p].id,
               [currentVersionId |-> proc[p].vid, updatedAt |-> NoTime])
    /\ Set(p, [proc[p] EXCEPT !.pc = AfterCreatePointer(proc[p].input), !.i = 1])
    /\ UNCHANGED <<committed, now, nextTagId, calls>>

\* ---------------------------------------------------------------- addTags
AfterAddTags(op) == IF op = "create" THEN "commit" ELSE "u_read"

\* (mutant) the lookup by label finds nothing: every label gets a new tag row
AddTagsFindNothing(p) ==
    /\ proc[p].pc = "t_find"
    /\ Set(p, [proc[p] EXCEPT !.pc = "t_insert", !.tag = NoId])
    /\ UNCHANGED <<committed, pending, now, nextTagId, calls>>

\* lines 179-181: findFirst by label (any one of the rows carrying the label)
AddTagsFind(p) ==
    /\ proc[p].pc = "t_find"
    /\ LET label == proc[p].input.tags[proc[p].i]
           found == {t \in DOMAIN View.tags : View.tags[t].label = label}
       IN IF found = {}
          THEN Set(p, [proc[p] EXCEPT !.pc = "t_insert", !.tag = NoId])
          ELSE \E t \in found : Set(p, [proc[p] EXCEPT !.pc = "t_link", !.tag = t])
    /\ UNCHANGED <<committed, pending, now, nextTagId, calls>>

\* (mutant) the tags table has a unique index on label: the insert of a label that a
\* row already carries is refused
AddTagsInsertUnique(p) ==
    /\ proc[p].pc = "t_insert"
    /\ nextTagId <= MaxTagRows
    /\ IF \E t \in DOMAIN View.tags : View.tags[t].label = proc[p].input.tags[proc[p].i]
       THEN Rollback(p, "constraint")
       ELSE /\ TxWrite(p, "insertTag", nextTagId,
                       [id |-> nextTagId, label |-> proc[p].input.tags[proc[p].i]])
            /\ Set(p, [proc[p] EXCEPT !.pc = "t_link", !.tag = nextTagId])
            /\ nextTagId' = nextTagId + 1
            /\ UNCHANGED <<committed, now, calls>>

\* lines 183-193
AddTagsInsert(p) ==
    /\ proc[p].pc = "t_insert"
    /\ nextTagId <= MaxTagRows
    /\ TxWrite(p, "insertTag", nextTagId,
               [id |-> nextTagId, label |-> proc[p].input.tags[proc[p].i]])
    /\ Set(p, [proc[p] EXCEPT !.pc = "t_link", !.tag = nextTagId])
    /\ nextTagId' = nextTagId + 1
    /\ UNCHANGED <<committed, now, calls>>

\* lines 196-202; the table's primary key (resourceId, tagId) rejects a second row
AddTagsLink(p) ==
    /\ proc[p].pc = "t_link"
    /\ IF \E l \in View.links : l.resourceId = proc[p].id /\ l.tagId = proc[p].tag
       THEN Rollback(p, "constraint")
       ELSE /\ TxWrite(p, "insertLink", proc[p].id,
                       [resourceId |-> proc[p].id, tagId |-> proc[p].tag])
            /\ Set(p, [proc[p] EXCEPT
                    !.pc = IF proc[p].i < Len(proc[p].input.tags)
                           THEN "t_find" ELSE AfterAddTags(proc[p].op),
                    !.i = @ + 1])
            /\ UNCHANGED <<committed, now, nextTagId, calls>>

\* ----------------------------------------------------------------- update
\* (mutant) update tests input.tags?.length, as create does: an empty list is skipped
AfterUpdateCheckTagsLength(input) ==
    IF input.fields # Null THEN "u_fields"
    ELSE IF input.content # Null THEN "u_version"
    ELSE IF input.hasTags /\ Len(input.tags) > 0 THEN "u_deltags"
    ELSE "u_read"

\* the statement update() runs after its existence check, and after each later one
AfterUpdateCheck(input) ==
    IF input.fields # Null THEN "u_fields"
    ELSE IF input.content # Null THEN "u_version"
    ELSE IF input.hasTags THEN "u_deltags"
    ELSE "u_read"

AfterUpdateFields(input) ==
    IF input.content # Null THEN "u_version"
    ELSE IF input.hasTags THEN "u_deltags"
    ELSE "u_read"

AfterUpdatePointer(input) == IF input.hasTags THEN "u_deltags" ELSE "u_read"

AfterDeleteTags(input) == IF Len(input.tags) > 0 THEN "t_find" ELSE "u_read"

\* (mutant) the lookup forgets isNull(deletedAt)
UpdateCheckNoFilter(id) == FindByIdNoFilter(View, id)

\* line 108: const resource = await this.findById(id)
UpdateCheck(id) == FindById(View, id)

\* lines 107-109: the transaction opens, the resource is looked up, a missing
\* resource throws 'Resource not found'
UpdateBegin(p, id, input, updatedById) ==
    /\ Ready(p)
    /\ input.content # Null => Cardinality(DOMAIN View.versions) < MaxVersions
    /\ LET resource == UpdateCheck(id)
           called == [Called("update", id, input) EXCEPT !.by = updatedById, !.resource = resource]
       IN IF resource = {}
          THEN Set(p, [called EXCEPT !.pc = "failed", !.err = "not_found"])
          ELSE Set(p, [called EXCEPT !.pc = AfterUpdateCheck(input)])
    /\ calls' = calls + 1
    /\ UNCHANGED <<committed, pending, now, nextTagId>>

\* (mutant) the fields statement removes the resource's links
UpdateFieldsDropsTags(p) ==
    /\ proc[p].pc = "u_fields"
    /\ TxWrite(p, "deleteLinks", proc[p].id, <<>>)
    /\ Set(p, [proc[p] EXCEPT !.pc = AfterUpdateFields(proc[p].input)])
    /\ UNCHANGED <<committed, now, nextTagId, calls>>

\* lines 112-120
UpdateFields(p) ==
    /\ proc[p].pc = "u_fields"
    /\ TxWrite(p, "setFields", proc[p].id, [fields |-> proc[p].input.fields, updatedAt |-> now])
    /\ Set(p, [proc[p] EXCEPT !.pc = AfterUpdateFields(proc[p].input)])
    /\ UNCHANGED <<committed, now, nextTagId, calls>>

\* (mutant) the content is written over the current version instead of a new row
UpdateVersionInPlace(p) ==
    /\ proc[p].pc = "u_version"
    /\ LET current == View.resources[proc[p].id].currentVersionId
       IN /\ TxWrite(p, "insertVersion", current,
                     VersionRow(current, proc[p].id, proc[p].input.content, proc[p].by))
          /\ Set(p, [proc[p] EXCEPT !.pc = "u_pointer", !.vid = current])
    /\ UNCHANGED <<committed, now, nextTagId, calls>>

\* lines 123-133
UpdateVersion(p) ==
    /\ proc[p].pc = "u_version"
    /\ TxWrite(p, "insertVersion", proc[p].call,
               VersionRow(proc[p].call, proc[p].id, proc[p].input.content, proc[p].by))
    /\ Set(p, [proc[p] EXCEPT !.pc = "u_pointer", !.vid = proc[p].call])
    /\ UNCHANGED <<committed, now, nextTagId, calls>>

\* (mutant) the pointer is left where the lookup of line 108 found it
UpdatePointerKept(p) ==
    /\ proc[p].pc = "u_pointer"
    /\ TxWrite(p, "setCurrentVersion", proc[p].id,
               [currentVersionId |-> (CHOOSE r \in proc[p].resource : TRUE).row.currentVersionId,
                updatedAt |-> now])
    /\ Set(p, [proc[p] EXCEPT !.pc = AfterUpdatePointer(proc[p].input)])
    /\ UNCHANGED <<committed, now, nextTagId, calls>>

\* lines 135-141
UpdatePointer(p) ==
    /\ proc[p].pc = "u_pointer"
    /\ TxWrite(p, "setCurrentVersion", proc[p].id,
               [currentVersionId |-> proc[p].vid, updatedAt |-> now])
    /\ Set(p, [proc[p] EXCEPT !.pc = AfterUpdatePointer(proc[p].input)])
    /\ UNCHANGED <<committed, now, nextTagId, calls>>

\* (mutant) the existing links are kept and the new ones added to them
UpdateKeepTags(p) ==
    /\ proc[p].pc = "u_deltags"
    /\ Set(p, [proc[p] EXCEPT !.pc = AfterDeleteTags(proc[p].input), !.i = 1])
    /\ UNCHANGED <<committed, pending, now, nextTagId, calls>>

\* lines 145-149; addTags (line 152) follows
UpdateDeleteTags(p) ==
    /\ proc[p].pc = "u_deltags"
    /\ TxWrite(p, "deleteLinks", proc[p].id, <<>>)
    /\ Set(p, [proc[p] EXCEPT !.pc = AfterDeleteTags(proc[p].input), !.i = 1])
    /\ UNCHANGED <<committed, now, nextTagId, calls>>

\* (mutant) the resource read at line 108 is returned
UpdateResultStale(p) == proc[p].resource

\* line 155: return await this.findById(id)
UpdateResult(p) == FindById(View, proc[p].id)

UpdateRead(p) ==
    /\ proc[p].pc = "u_read"
    /\ Set(p, [proc[p] EXCEPT !.pc = "commit", !.ret = UpdateResult(p)])
    /\ UNCHANGED <<committed, pending, now, nextTagId, calls>>

\* ------------------------------------------------- softDelete and the reads
\* (mutant) the delete is a DELETE of the resource row
SoftDeleteHard(p, id) ==
    /\ Ready(p)
    /\ committed' = [committed EXCEPT !.resources =
                        [r \in DOMAIN committed.resources \ {id} |-> committed.resources[r]]]
    /\ Set(p, [Called("softDelete", id, NoInput) EXCEPT !.pc = "done"])
    /\ calls' = calls + 1
    /\ UNCHANGED <<pending, now, nextTagId>>

\* (mutant) the soft delete also removes the resource's links
SoftDeleteUnlinks(p, id) ==
    /\ Ready(p)
    /\ committed' = ApplyOp(ApplyOp(committed, [kind |-> "softDelete", id |-> id,
                                                 row |-> [deletedAt |-> now, updatedAt |-> now]]),
                            [kind |-> "deleteLinks", id |-> id, row |-> <<>>])
    /\ Set(p, [Called("softDelete", id, NoInput) EXCEPT !.pc = "done"])
    /\ calls' = calls + 1
    /\ UNCHANGED <<pending, now, nextTagId>>

\* lines 159-167: one statement on this.db
SoftDelete(p, id) ==
    /\ Ready(p)
    /\ DbWrite("softDelete", id, [deletedAt |-> now, updatedAt |-> now])
    /\ Set(p, [Called("softDelete", id, NoInput) EXCEPT !.pc = "done"])
    /\ calls' = calls + 1
    /\ UNCHANGED <<pending, now, nextTagId>>

FindByIdCall(p, id) ==
    /\ Ready(p)
    /\ Set(p, [Called("findById", id, NoInput) EXCEPT !.pc = "done", !.ret = FindById(View, id)])
    /\ calls' = calls + 1
    /\ UNCHANGED <<committed, pending, now, nextTagId>>

FindByTypeCall(p, type) ==
    /\ Ready(p)
    /\ Set(p, [Called("findByType", NoId, [NoInput EXCEPT !.type = type]) EXCEPT
                    !.pc = "done", !.ret = FindByType(View, type)])
    /\ calls' = calls + 1
    /\ UNCHANGED <<committed, pending, now, nextTagId>>

GetVersionHistoryCall(p, id) ==
    /\ Ready(p)
    /\ \E s \in GetVersionHistory(View, id) :
          Set(p, [Called("getVersionHistory", id, NoInput) EXCEPT !.pc = "done", !.history = s])
    /\ calls' = calls + 1
    /\ UNCHANGED <<committed, pending, now, nextTagId>>

\* ------------------------------------------------------------ transaction
\* what the callback returns: create returns the row its first insert returned
\* (line 67), update returns its closing findById (line 155)
Returned(p) == IF proc[p].op = "create" THEN proc[p].resource ELSE proc[p].ret

\* the foreign keys the schema declares: content_versions.resource_id,
\* content_resource_tags.resource_id and content_resource_tags.tag_id
ForeignKeys(db) ==
    /\ \A v \in DOMAIN db.versions : db.versions[v].resourceId \in DOMAIN db.resources
    /\ \A l \in db.links : l.resourceId \in DOMAIN db.resources /\ l.tagId \in DOMAIN db.tags

\* (mutant) the tables declare no foreign key: every commit goes through
CommitUnchecked(p) ==
    /\ proc[p].pc = "commit"
    /\ committed' = ApplyAll(committed, OpsOf(p))
    /\ pending' = OpsNotOf(p)
    /\ Set(p, [proc[p] EXCEPT !.pc = "done", !.ret = Returned(p)])
    /\ UNCHANGED <<now, nextTagId, calls>>

\* the callback returned: its statements are committed, unless a row they leave
\* refers to a parent row that is not committed (it was read from another
\* transaction, open or rolled back since): storage refuses that, and the
\* transaction fails
Commit(p) ==
    /\ proc[p].pc = "commit"
    /\ IF ForeignKeys(ApplyAll(committed, OpsOf(p)))
       THEN /\ committed' = ApplyAll(committed, OpsOf(p))
            /\ pending' = OpsNotOf(p)
            /\ Set(p, [proc[p] EXCEPT !.pc = "done", !.ret = Returned(p)])
            /\ UNCHANGED <<now, nextTagId, calls>>
       ELSE Rollback(p, "foreign_key")

\* a statement of the transaction fails in storage
StorageFailure(p) ==
    /\ proc[p].pc \in InTx
    /\ Rollback(p, "storage")

\* new Date() moves on
Tick ==
    /\ now < MaxTime
    /\ now' = now + 1
    /\ UNCHANGED <<committed, pending, nextTagId, proc, calls, svc>>

\* ------------------------------------------------ ContentResourceService
\* String.prototype.trim on an id or a user id, and on a type
Trim(s) == IF s = BlankString THEN EmptyString ELSE s

TrimType(t) == IF t = " " THEN "" ELSE t

\* !id?.trim()
Blank(s) == Trim(s) = EmptyString

\* !type?.trim()
BlankType(t) == TrimType(t) = ""

\* CreateInputSchema.parse: type and createdById are strings of length >= 1, content
\* is a record; fields and tags are optional
CreateInputSchema(input) ==
    input.type # "" /\ input.createdById # EmptyString /\ input.content # Null

\* (mutant) the update schema without its refinement
UpdateInputSchemaUnrefined(input) == TRUE

\* UpdateInputSchema.parse: the object schema keeps the keys fields, content and tags
\* (a state key is stripped) and the refinement wants at least one key left
UpdateInputSchema(input) ==
    input.fields # Null \/ input.content # Null \/ input.hasTags

\* the errors there are: none, a ZodError, a ContentResourceError with its code, and
\* the plain Error a repository call rejects with
NoError == [class |-> "none", code |-> "none"]

ZodError == [class |-> "ZodError", code |-> "none"]

ContentResourceError(code) == [class |-> "ContentResourceError", code |-> code]

Error(message) == [class |-> "Error", code |-> message]

\* what reaches the caller when `error` is thrown in the body of a Service method:
\* the catch block of the method, if it has one
Caught(op, error) ==
    CASE op = "createResource" ->
            IF error.class = "ZodError" THEN ContentResourceError("INVALID_INPUT")
            ELSE ContentResourceError("SYSTEM_ERROR")
      [] op = "updateResource" ->
            IF error.class = "ContentResourceError" THEN error
            ELSE IF error.class = "ZodError" THEN ContentResourceError("INVALID_INPUT")
            ELSE ContentResourceError("SYSTEM_ERROR")
      [] op \in {"deleteResource", "getVersionHistory"} ->
            IF error.class = "ContentResourceError" THEN error
            ELSE ContentResourceError("SYSTEM_ERROR")
      [] OTHER -> error

\* a caller of the Service between calls
IdleSvc ==
    [pc |-> "idle", op |-> "none", id |-> NoId, type |-> "none", input |-> NoInput, by |-> Null,
     found |-> {}, ret |-> {}, history |-> <<>>, repoCalls |-> 0, mutating |-> FALSE,
     rejected |-> FALSE, err |-> NoError, snap |-> EmptyDb]

\* ---------------------------------------------------------- specification
\* storage as create({type: "article", createdById, content, tags: ["a"]}), made as
\* call 1 at time 0, leaves it
SeededDb ==
    [resources |-> SetRow(<<>>, 1, [id |-> 1, type |-> "article", createdById |-> 1,
                                    fields |-> Null, currentVersionId |-> 1, state |-> "draft",
                                    updatedAt |-> 0, deletedAt |-> NoTime]),
     versions |-> SetRow(<<>>, 1, [id |-> 1, resourceId |-> 1, content |-> 1,
                                   createdById |-> 1, createdAt |-> 0]),
     tags |-> SetRow(<<>>, 1, [id |-> 1, label |-> "a"]),
     links |-> {[resourceId |-> 1, tagId |-> 1]}]

\* one call has been made: it failed and left storage empty, or it was that create
Init ==
    /\ committed \in {EmptyDb, SeededDb}
    /\ pending = <<>>
    /\ now = 0
    /\ nextTagId = Cardinality(DOMAIN committed.tags) + 1
    /\ proc = [p \in Procs |-> IdleProc]
    /\ calls = 1
    /\ svc = [p \in Procs |-> IdleSvc]

Step(p, creates, updates) ==
    \/ \E input \in creates : CreateBegin(p, input)
    \/ CreateVersion(p)
    \/ CreatePointer(p)
    \/ AddTagsFind(p)
    \/ AddTagsInsert(p)
    \/ AddTagsLink(p)
    \/ \E id \in KnownIds, input \in updates : UpdateBegin(p, id, input, Payload)
    \/ UpdateFields(p)
    \/ UpdateVersion(p)
    \/ UpdatePointer(p)
    \/ UpdateDeleteTags(p)
    \/ UpdateRead(p)
    \/ Commit(p)
    \/ StorageFailure(p)
    \/ \E id \in KnownIds : SoftDelete(p, id)
    \/ \E id \in KnownIds : FindByIdCall(p, id)
    \/ \E type \in Types : FindByTypeCall(p, type)
    \/ \E id \in KnownIds : GetVersionHistoryCall(p, id)

\* the updates of the serial calls: every combination of fields, content and tags
\* without a state; each of the five states alone; one state next to new content
SerialUpdates ==
    {x \in UpdateContentResourceInput :
        \/ x.state = "none"
        \/ /\ x.fields = Null /\ ~x.hasTags
           /\ x.content = Null \/ x.state = "published"}

\* calls made one after another
Next == (Step(1, CreateContentResourceInput, SerialUpdates) /\ UNCHANGED svc) \/ Tick

Spec == Init /\ [][Next]_vars

\* the inputs of the interleaved calls: a create tagged with a label no tag has yet;
\* a content-only, a fields-only and a tags-only update
ConcurrentCreates ==
    {x \in CreateContentResourceInput :
        x.type = "article" /\ x.fields = Null /\ x.hasTags /\ x.tags = <<"b">>}

ConcurrentUpdates ==
    {x \in UpdateContentResourceInput :
        /\ x.state = "none"
        /\ \/ x.fields = Null /\ x.content # Null /\ ~x.hasTags
           \/ x.fields # Null /\ x.content = Null /\ ~x.hasTags
           \/ x.fields = Null /\ x.content = Null /\ x.hasTags /\ x.tags = <<"b">>}

\* calls made by two callers, interleaved at every await
NextConcurrent ==
    (\E p \in Procs : Step(p, ConcurrentCreates, ConcurrentUpdates) /\ UNCHANGED svc) \/ Tick

SpecConcurrent == Init /\ [][NextConcurrent]_vars

\* ------------------------------------------------------- Service methods
ServiceReady(p) == svc[p].pc \in {"idle", "done", "failed"} /\ Ready(p)

Entered(op, id, type, input, by) ==
    [IdleSvc EXCEPT !.op = op, !.id = id, !.type = type, !.input = input, !.by = by,
                    !.snap = committed]

Thrown(s, error) == [s EXCEPT !.pc = "failed", !.err = error]

\* a step of the Service that calls nothing
NoRepositoryStep == UNCHANGED <<committed, pending, now, nextTagId, proc, calls>>

\* part_003 lines 36-43
CreateResource(p, input) ==
    /\ ServiceReady(p)
    /\ LET s == Entered("createResource", NoId, "none", input, Null)
       IN svc' = [svc EXCEPT ![p] =
                    IF CreateInputSchema(input) THEN [s EXCEPT !.pc = "repo"]
                    ELSE Thrown(s, Caught("createResource", ZodError))]
    /\ NoRepositoryStep

\* lines 60-63
GetResource(p, id) ==
    /\ ServiceReady(p)
    /\ LET s == Entered("getResource", id, "none", NoInput, Null)
       IN svc' = [svc EXCEPT ![p] =
                    IF Blank(id) THEN Thrown(s, ContentResourceError("INVALID_INPUT"))
                    ELSE [s EXCEPT !.pc = "find"]]
    /\ NoRepositoryStep

\* lines 74-77
GetResourcesByType(p, type) ==
    /\ ServiceReady(p)
    /\ LET s == Entered("getResourcesByType", NoId, type, NoInput, Null)
       IN svc' = [svc EXCEPT ![p] =
                    IF BlankType(type) THEN Thrown(s, ContentResourceError("INVALID_INPUT"))
                    ELSE [s EXCEPT !.pc = "read"]]
    /\ NoRepositoryStep

\* lines 82-93
UpdateResource(p, id, input, updatedById) ==
    /\ ServiceReady(p)
    /\ LET s == Entered("updateResource", id, "none", input, updatedById)
       IN svc' = [svc EXCEPT ![p] =
                    IF Blank(id) \/ Blank(updatedById)
                    THEN Thrown(s, ContentResourceError("INVALID_INPUT"))
                    ELSE IF ~UpdateInputSchema(input)
                    THEN Thrown(s, Caught("updateResource", ZodError))
                    ELSE [s EXCEPT !.pc = "find"]]
    /\ NoRepositoryStep

\* lines 124-127
DeleteResource(p, id) ==
    /\ ServiceReady(p)
    /\ LET s == Entered("deleteResource", id, "none", NoInput, Null)
       IN svc' = [svc EXCEPT ![p] =
                    IF Blank(id) THEN Thrown(s, ContentResourceError("INVALID_INPUT"))
                    ELSE [s EXCEPT !.pc = "find"]]
    /\ NoRepositoryStep

\* lines 150-153
ServiceGetVersionHistory(p, id) ==
    /\ ServiceReady(p)
    /\ LET s == Entered("getVersionHistory", id, "none", NoInput, Null)
       IN svc' = [svc EXCEPT ![p] =
                    IF Blank(id) THEN Thrown(s, ContentResourceError("INVALID_INPUT"))
                    ELSE [s EXCEPT !.pc = "find"]]
    /\ NoRepositoryStep

\* (mutant) the existence check lets every id through
ExistsAlways(found) == TRUE

\* if (!exists) / if (!resource)
Exists(found) == found # {}

\* the repository method a Service method calls to change storage
RepositoryMethod(op) ==
    CASE op = "createResource" -> "create"
      [] op = "updateResource" -> "update"
      [] op = "deleteResource" -> "softDelete"
      [] OTHER -> "none"

\* lines 65-71, 96-99, 131-134, 157-160: await this.repository.findById(id) and the
\* check of what it returned
ServiceFindById(p) ==
    /\ svc[p].pc = "find"
    /\ LET found == FindById(View, svc[p].id)
           s == [svc[p] EXCEPT !.found = found, !.repoCalls = @ + 1]
       IN svc' = [svc EXCEPT ![p] =
                    IF ~Exists(found)
                    THEN Thrown(s, Caught(s.op, ContentResourceError("NOT_FOUND")))
                    ELSE IF s.op = "getResource" THEN [s EXCEPT !.pc = "done", !.ret = found]
                    ELSE IF s.op = "getVersionHistory" THEN [s EXCEPT !.pc = "read"]
                    ELSE [s EXCEPT !.pc = "repo"]]
    /\ NoRepositoryStep

\* line 79: return await this.repository.findByType(type)
\* line 162: return await this.repository.getVersionHistory(id)
ServiceRead(p) ==
    /\ svc[p].pc = "read"
    /\ LET s == [svc[p] EXCEPT !.pc = "done", !.repoCalls = @ + 1]
       IN IF s.op = "getResourcesByType"
          THEN svc' = [svc EXCEPT ![p] = [s EXCEPT !.ret = FindByType(View, s.type)]]
          ELSE \E h \in GetVersionHistory(View, s.id) :
                  svc' = [svc EXCEPT ![p] = [s EXCEPT !.history = h]]
    /\ NoRepositoryStep

\* lines 42, 102, 136: await this.repository.create(input) / update(id, input,
\* updatedById) / softDelete(id): the steps of that repository method, the first one
\* with the arguments of the Service call; its result or its error ends the call
RepositoryCall(p) ==
    /\ svc[p].pc = "repo"
    /\ IF Ready(p)
       THEN \/ svc[p].op = "createResource" /\ CreateBegin(p, svc[p].input)
            \/ svc[p].op = "updateResource"
                  /\ UpdateBegin(p, svc[p].id, svc[p].input, svc[p].by)
            \/ svc[p].op = "deleteResource" /\ SoftDelete(p, svc[p].id)
       ELSE Step(p, {}, {})
    /\ LET s == [svc[p] EXCEPT !.mutating = TRUE, !.repoCalls = IF Ready(p) THEN @ + 1 ELSE @]
       IN svc' = [svc EXCEPT ![p] =
                    CASE proc'[p].pc = "done" -> [s EXCEPT !.pc = "done", !.ret = proc'[p].ret]
                      [] proc'[p].pc = "failed" ->
                            Thrown([s EXCEPT !.rejected = TRUE], Caught(s.op, Error(proc'[p].err)))
                      [] OTHER -> s]

\* the awaited findById, findByType, getVersionHistory or softDelete rejects: storage
\* fails the statement
RepositoryRejects(p) ==
    /\ \/ svc[p].pc \in {"find", "read"}
       \/ svc[p].pc = "repo" /\ svc[p].op = "deleteResource"
    /\ LET s == [svc[p] EXCEPT !.rejected = TRUE, !.repoCalls = @ + 1,
                              !.mutating = (svc[p].pc = "repo")]
       IN svc' = [svc EXCEPT ![p] = Thrown(s, Caught(s.op, Error("storage")))]
    /\ NoRepositoryStep

\* the arguments of the Service calls: ids with and without a row, the empty and the
\* blank string; a type with its empty and blank forms
ServiceIds == KnownIds \cup {EmptyString, BlankString}

ServiceUsers == {Payload, EmptyString, BlankString}

ServiceTypes == {"article", "", " "}

ServiceCreates ==
    {[NoInput EXCEPT !.type = t, !.createdById = u, !.content = c] :
        t \in ServiceTypes, u \in ServiceUsers, c \in {Null, Payload}}

\* {}, {content}, {fields}, {tags: ["b"]}, {state} and {content, state}
ServiceUpdates ==
    {x \in UpdateContentResourceInput :
        \/ /\ ~x.hasTags /\ x.state \in {"none", "published"}
           /\ x.fields = Null \/ (x.content = Null /\ x.state = "none")
        \/ /\ x.hasTags /\ x.tags = <<"b">> /\ x.state = "none"
           /\ x.fields = Null /\ x.content = Null}

ServiceStep(p) ==
    \/ \E input \in ServiceCreates : CreateResource(p, input)
    \/ \E id \in ServiceIds : GetResource(p, id)
    \/ \E type \in ServiceTypes : GetResourcesByType(p, type)
    \/ \E id \in ServiceIds, input \in ServiceUpdates, by \in ServiceUsers :
          UpdateResource(p, id, input, by)
    \/ \E id \in ServiceIds : DeleteResource(p, id)
    \/ \E id \in ServiceIds : ServiceGetVersionHistory(p, id)
    \/ ServiceFindById(p)
    \/ ServiceRead(p)
    \/ RepositoryCall(p)
    \/ RepositoryRejects(p)

\* Service calls made one after another
NextService == ServiceStep(1) \/ Tick

SpecService == Init /\ [][NextService]_vars

\* interleaved Service calls: updates with new content and deletes of the ids there
\* are, by two callers
ConcurrentServiceUpdates ==
    {x \in UpdateContentResourceInput :
        x.content # Null /\ x.fields = Null /\ ~x.hasTags /\ x.state = "none"}

ConcurrentServiceStep(p) ==
    \/ \E id \in KnownIds, input \in ConcurrentServiceUpdates : UpdateResource(p, id, input, Payload)
    \/ \E id \in KnownIds : DeleteResource(p, id)
    \/ ServiceFindById(p)
    \/ RepositoryCall(p)
    \/ RepositoryRejects(p)

NextServiceConcurrent == (\E p \in Procs : ConcurrentServiceStep(p)) \/ Tick

SpecServiceConcurrent == Init /\ [][NextServiceConcurrent]_vars

\* ================================================================ claims
Range(s) == {s[i] : i \in DOMAIN s}

Done(p, op) == proc[p].op = op /\ proc[p].pc = "done"

Failed(p) == proc[p].pc = "failed"

VersionsOf(db, id) == {v \in DOMAIN db.versions : db.versions[v].resourceId = id}

LinksOf(db, id) == {l \in db.links : l.resourceId = id}

Deleted(db, id) == id \in DOMAIN db.resources /\ db.resources[id].deletedAt # NoTime

\* C1: a create or update whose transaction failed at any step leaves the committed
\* tables exactly as they were before the call, and none of its statements pending.
Atomicity ==
    \A p \in Procs :
        Failed(p) /\ proc[p].op \in {"create", "update"}
            => committed = proc[p].snap /\ OpsOf(p) = <<>>

\* a create or update failed in storage after its version row was inserted
AtomicityWitness ==
    \E p \in Procs :
        /\ Failed(p) /\ proc[p].op \in {"create", "update"}
        /\ proc[p].err = "storage" /\ proc[p].vid # NoId

\* C2: in every committed state, a non-deleted resource with at least one version
\* has a currentVersionId that is the id of a version of that same resource.
CurrentVersionPointer ==
    \A id \in DOMAIN committed.resources :
        ~Deleted(committed, id) /\ VersionsOf(committed, id) # {}
            => /\ committed.resources[id].currentVersionId # NoId
               /\ committed.resources[id].currentVersionId \in VersionsOf(committed, id)

\* a committed, non-deleted resource with two versions, pointing at the later one
CurrentVersionPointerWitness ==
    \E id \in DOMAIN committed.resources :
        /\ ~Deleted(committed, id)
        /\ Cardinality(VersionsOf(committed, id)) = 2
        /\ \A v \in VersionsOf(committed, id) : v <= committed.resources[id].currentVersionId

\* C3 (as claimed): a findById or findByType that runs while create or update
\* transactions are open never returns a resource whose currentVersionId names an
\* uncommitted version, nor a version whose resource row is not committed.
ReadsSeeOnlyCommitted ==
    \A p \in Procs :
        Done(p, "findById") \/ Done(p, "findByType")
            => \A r \in proc[p].ret :
                  /\ r.row.currentVersionId # NoId
                        => r.row.currentVersionId \in DOMAIN committed.versions
                  /\ \A v \in r.currentVersion : v.resourceId \in DOMAIN committed.resources

\* the versions of a resource in the order they were created
CreationOrder(db, id) ==
    CHOOSE s \in Orders(VersionsOf(db, id)) : \A i \in 1..(Len(s) - 1) : s[i] < s[i + 1]

\* C4 (as claimed): getVersionHistory returns the versions of the resource, all of
\* them, in the order they were created, and the current version is the last created.
HistoryInCreationOrder ==
    \A p \in Procs :
        Done(p, "getVersionHistory") /\ proc[p].id \in DOMAIN committed.resources
            => /\ proc[p].history = CreationOrder(committed, proc[p].id)
               /\ proc[p].history # <<>>
                    => committed.resources[proc[p].id].currentVersionId
                           = proc[p].history[Len(proc[p].history)]

\* C5: a committed version row stays, unchanged, in every later state.
AppendOnly ==
    [][\A v \in DOMAIN committed.versions :
          /\ v \in DOMAIN committed'.versions
          /\ committed'.versions[v] = committed.versions[v]]_vars

\* an update or a soft delete has changed storage that already held versions
AppendOnlyWitness ==
    \E p \in Procs :
        /\ Done(p, "update") \/ Done(p, "softDelete")
        /\ DOMAIN proc[p].snap.versions # {}
        /\ committed # proc[p].snap

\* C6: a completed softDelete marks the row; a marked row stays marked and present;
\* findById returns null for it and findByType leaves it out.
SoftDeleteVisibility ==
    /\ [](\A p \in Procs :
            Done(p, "softDelete") /\ proc[p].id \in DOMAIN committed.resources
                => Deleted(committed, proc[p].id))
    /\ [](\A id \in DOMAIN committed.resources :
            Deleted(committed, id)
                => /\ FindById(View, id) = {}
                   /\ \A t \in Types : \A r \in FindByType(View, t) : r.row.id # id)
    /\ [][\A id \in DOMAIN committed.resources :
            Deleted(committed, id) => Deleted(committed', id)]_vars

\* a softDelete of an existing resource has completed
SoftDeleteVisibilityWitness ==
    \E p \in Procs : Done(p, "softDelete") /\ Deleted(committed, proc[p].id)

\* C7 (as claimed): what a successful create returns has a non-null id and the id
\* of the version inserted in the same transaction as its currentVersionId.
CreateReturnsCommitted ==
    \A p \in Procs :
        Done(p, "create")
            => \A r \in proc[p].ret :
                  /\ r.id # NoId
                  /\ r.currentVersionId # NoId
                  /\ r.currentVersionId = proc[p].vid
                  /\ proc[p].input.fields = Null => r.fields = Null

\* C8: what a successful update returns is the resource as that update leaves it:
\* its new field map, its new current version, its new tags.
UpdateReturnsPostState ==
    \A p \in Procs :
        Done(p, "update")
            => /\ proc[p].ret = FindById(committed, proc[p].id)
               /\ proc[p].ret # {}
               /\ \A r \in proc[p].ret :
                     /\ proc[p].input.fields # Null => r.row.fields = proc[p].input.fields
                     /\ proc[p].input.content # Null
                           => /\ r.row.currentVersionId = proc[p].vid
                              /\ \A v \in r.currentVersion : v.content = proc[p].input.content
                              /\ r.currentVersion # {}
                     /\ proc[p].input.hasTags
                           => {t.label : t \in r.tags} = Range(proc[p].input.tags)

\* an update that carried fields, content and tags has returned
UpdateReturnsPostStateWitness ==
    \E p \in Procs :
        /\ Done(p, "update")
        /\ proc[p].input.fields # Null /\ proc[p].input.content # Null
        /\ proc[p].input.hasTags /\ proc[p].input.tags # <<>>

\* C9: an update of an id that names no resource, or a soft-deleted one, when its
\* transaction starts fails with not-found and writes nothing; any other update
\* does not fail with not-found.
UpdateNotFound ==
    \A p \in Procs :
        proc[p].op = "update"
            => IF FindById(proc[p].snap, proc[p].id) = {}
               THEN /\ Failed(p) /\ proc[p].err = "not_found"
                    /\ committed = proc[p].snap /\ OpsOf(p) = <<>>
               ELSE proc[p].err # "not_found"

\* an update of a soft-deleted resource has failed with not-found
UpdateNotFoundWitness ==
    \E p \in Procs :
        /\ proc[p].op = "update" /\ Failed(p) /\ proc[p].err = "not_found"
        /\ Deleted(committed, proc[p].id)

\* C10: after a successful update with tags L the resource has exactly one link per
\* label of L and no other link, and every tag row there was is still there.
TagReplacement ==
    \A p \in Procs :
        Done(p, "update") /\ proc[p].input.hasTags
            => /\ \A l \in LinksOf(committed, proc[p].id) : l.tagId \in DOMAIN committed.tags
               /\ {committed.tags[l.tagId].label : l \in LinksOf(committed, proc[p].id)}
                      = Range(proc[p].input.tags)
               /\ Cardinality(LinksOf(committed, proc[p].id))
                      = Cardinality(Range(proc[p].input.tags))
               /\ \A t \in DOMAIN proc[p].snap.tags :
                      t \in DOMAIN committed.tags /\ committed.tags[t] = proc[p].snap.tags[t]

\* an update has replaced the tag "a" of a resource by "b"; the tag row "a" remains
TagReplacementWitness ==
    \E p \in Procs :
        /\ Done(p, "update") /\ proc[p].input.hasTags /\ proc[p].input.tags = <<"b">>
        /\ \E l \in LinksOf(proc[p].snap, proc[p].id) : proc[p].snap.tags[l.tagId].label = "a"
        /\ \E t \in DOMAIN committed.tags : committed.tags[t].label = "a"

\* C11: after calls made one after another the tags table holds at most one row per
\* label; resources tagged with the same label are linked to the same tag row, each
\* by one link row.
IdempotentTagReuse ==
    /\ \A t1, t2 \in DOMAIN committed.tags :
          committed.tags[t1].label = committed.tags[t2].label => t1 = t2
    /\ \A id \in DOMAIN committed.resources : \A label \in Labels :
          Cardinality({l \in LinksOf(committed, id) :
                          l.tagId \in DOMAIN committed.tags
                              /\ committed.tags[l.tagId].label = label}) <= 1

\* a create has tagged a second resource with a label the first one carries: one tag
\* row, two link rows
IdempotentTagReuseWitness ==
    \E p \in Procs : \E t \in DOMAIN committed.tags :
        /\ Done(p, "create") /\ proc[p].input.hasTags
        /\ committed.tags[t].label \in Range(proc[p].input.tags)
        /\ t \in DOMAIN proc[p].snap.tags
        /\ Cardinality({l \in committed.links : l.tagId = t}) = 2

\* C15 (as claimed): a successful update that carries state = s, whatever the
\* resource's state was, leaves the resource with state s.
UpdateSetsState ==
    \A p \in Procs :
        Done(p, "update") /\ proc[p].input.state # "none"
            => committed.resources[proc[p].id].state = proc[p].input.state

\* C16: findByType(t) returns the resources of type t that are not soft-deleted, each
\* once and in the denormalized shape, and no other resource.
FindByTypeExact ==
    \A p \in Procs :
        Done(p, "findByType")
            => LET t == proc[p].input.type
                   matching == {id \in DOMAIN committed.resources :
                                   committed.resources[id].type = t /\ ~Deleted(committed, id)}
               IN /\ \A id \in matching : Denormalized(committed, id) \in proc[p].ret
                  /\ \A r \in proc[p].ret : r.row.id \in matching
                  /\ Cardinality(proc[p].ret) = Cardinality(matching)

\* a findByType has returned a resource and left out one of its type that is
\* soft-deleted, or one of another type
FindByTypeExactWitness ==
    \E p \in Procs :
        /\ Done(p, "findByType") /\ proc[p].ret # {}
        /\ \E id \in DOMAIN committed.resources :
              \/ committed.resources[id].type # proc[p].input.type
              \/ Deleted(committed, id)

\* the columns of a resource row that softDelete does not write
KeptBySoftDelete(row) == [row EXCEPT !.deletedAt = NoTime, !.updatedAt = NoTime]

\* C17: a softDelete, and so a second one on the same id, leaves the resource
\* soft-deleted and every version, tag and link row and every other resource as they
\* were; on an id with no row it changes nothing and raises no error.
SoftDeleteIdempotent ==
    \A p \in Procs :
        Done(p, "softDelete")
            => LET id == proc[p].id
                   before == proc[p].snap
               IN /\ proc[p].err = "none"
                  /\ committed.versions = before.versions
                  /\ committed.tags = before.tags
                  /\ committed.links = before.links
                  /\ DOMAIN committed.resources = DOMAIN before.resources
                  /\ \A r \in DOMAIN before.resources :
                        r # id => committed.resources[r] = before.resources[r]
                  /\ id \in DOMAIN before.resources
                        => /\ Deleted(committed, id)
                           /\ KeptBySoftDelete(committed.resources[id])
                                  = KeptBySoftDelete(before.resources[id])
                  /\ id \notin DOMAIN before.resources => committed = before

\* a softDelete of a resource that was already soft-deleted has completed
SoftDeleteIdempotentWitness ==
    \E p \in Procs :
        Done(p, "softDelete") /\ Deleted(proc[p].snap, proc[p].id) /\ LinksOf(committed, proc[p].id) # {}

\* C20: a successful update writes only what its present keys name: without content
\* no version is inserted and currentVersionId stays; without fields the field map
\* stays; without tags the link and tag rows stay; a tags-only update leaves the
\* resource row, updatedAt included, as it was; no row of another resource, and no
\* earlier version, changes.
UpdateFrame ==
    \A p \in Procs :
        Done(p, "update")
            => LET id == proc[p].id
                   input == proc[p].input
                   before == proc[p].snap
                   row == committed.resources[id]
                   old == before.resources[id]
               IN /\ input.content = Null
                        => /\ committed.versions = before.versions
                           /\ row.currentVersionId = old.currentVersionId
                  /\ input.fields = Null => row.fields = old.fields
                  /\ ~input.hasTags
                        => committed.links = before.links /\ committed.tags = before.tags
                  /\ input.fields = Null /\ input.content = Null => row = old
                  /\ DOMAIN committed.resources = DOMAIN before.resources
                  /\ \A r \in DOMAIN before.resources :
                        r # id => /\ committed.resources[r] = before.resources[r]
                                  /\ LinksOf(committed, r) = LinksOf(before, r)
                  /\ \A v \in DOMAIN before.versions : committed.versions[v] = before.versions[v]
                  /\ \A v \in DOMAIN committed.versions \ DOMAIN before.versions :
                        committed.versions[v].resourceId = id

\* a tags-only update has replaced the links of one of two resources
UpdateFrameWitness ==
    \E p \in Procs :
        /\ Done(p, "update")
        /\ proc[p].input.hasTags /\ proc[p].input.fields = Null /\ proc[p].input.content = Null
        /\ committed.links # proc[p].snap.links
        /\ Cardinality(DOMAIN committed.resources) = 2

\* C18: when two updates with content of the same resource have both returned, both
\* of their versions are committed versions of the resource and its currentVersionId
\* is the id of one of the two.
ConcurrentUpdatesKeepBoth ==
    \A p, q \in Procs :
        /\ p # q /\ Done(p, "update") /\ Done(q, "update")
        /\ proc[p].id = proc[q].id
        /\ proc[p].input.content # Null /\ proc[q].input.content # Null
        => /\ {proc[p].vid, proc[q].vid} \subseteq VersionsOf(committed, proc[p].id)
           /\ proc[p].vid # proc[q].vid
           /\ committed.resources[proc[p].id].currentVersionId \in {proc[p].vid, proc[q].vid}

\* two updates with content of one resource, each begun before the other committed,
\* have both returned
ConcurrentUpdatesKeepBothWitness ==
    /\ Done(1, "update") /\ Done(2, "update")
    /\ proc[1].id = proc[2].id
    /\ proc[1].input.content # Null /\ proc[2].input.content # Null
    /\ proc[1].snap = proc[2].snap
    /\ Cardinality(VersionsOf(committed, proc[1].id)) = 3

\* the calls that run addTags with the one label l
TagsWith(p, l) ==
    /\ proc[p].op \in {"create", "update"}
    /\ proc[p].input.hasTags /\ proc[p].input.tags = <<l>>

\* C19: the insert of a tag row is never refused on account of its label, and when
\* two overlapping calls have each resolved the same label to a different tag row and
\* returned, the tags table holds both rows with that label.
TagRace ==
    /\ [][\A p \in Procs :
            proc[p].pc = "t_insert" /\ proc'[p].pc = "failed" => proc'[p].err = "storage"]_vars
    /\ [](\A p, q \in Procs : \A l \in Labels :
            /\ p # q /\ proc[p].pc = "done" /\ proc[q].pc = "done"
            /\ TagsWith(p, l) /\ TagsWith(q, l)
            /\ proc[p].tag # proc[q].tag
            => /\ {proc[p].tag, proc[q].tag} \subseteq DOMAIN committed.tags
               /\ committed.tags[proc[p].tag].label = l
               /\ committed.tags[proc[q].tag].label = l)

\* two creates that used the same new label at the same time have both returned, and
\* two tag rows carry the label
TagRaceWitness ==
    /\ Done(1, "create") /\ Done(2, "create")
    /\ \E l \in Labels : TagsWith(1, l) /\ TagsWith(2, l)
    /\ \E t1, t2 \in DOMAIN committed.tags :
          t1 # t2 /\ committed.tags[t1].label = committed.tags[t2].label

InvalidInput == ContentResourceError("INVALID_INPUT")

NotFound == ContentResourceError("NOT_FOUND")

TakesId(op) == op \in {"getResource", "updateResource", "deleteResource", "getVersionHistory"}

\* the arguments the Service is to reject: an empty or blank id, updatedById or type
\* to look up, an update payload with no key, a create payload with an empty type or
\* createdById or without content
Invalid(s) ==
    \/ TakesId(s.op) /\ s.id \in {EmptyString, BlankString}
    \/ s.op = "updateResource"
          /\ \/ s.by \in {EmptyString, BlankString}
             \/ s.input = NoInput
    \/ s.op = "getResourcesByType" /\ s.type \in {"", " "}
    \/ s.op = "createResource"
          /\ \/ s.input.type = ""
             \/ s.input.createdById = EmptyString
             \/ s.input.content = Null

\* C12: a Service call that ends with INVALID_INPUT has made no repository call and
\* storage is as it was; a call with an empty or blank id, updatedById or lookup type,
\* an empty update payload, or a create payload with an empty type or createdById or
\* no content ends with INVALID_INPUT.
ValidationShortCircuit ==
    \A p \in Procs :
        /\ svc[p].err = InvalidInput
              => /\ svc[p].repoCalls = 0 /\ ~svc[p].mutating
                 /\ committed = svc[p].snap /\ pending = <<>>
        /\ Invalid(svc[p]) => svc[p].pc = "failed" /\ svc[p].err = InvalidInput

\* updateResource of an existing resource with the payload {} has been rejected
ValidationShortCircuitWitness ==
    \E p \in Procs :
        /\ svc[p].op = "updateResource" /\ svc[p].err = InvalidInput
        /\ svc[p].input = NoInput /\ svc[p].by \notin {EmptyString, BlankString}
        /\ FindById(committed, svc[p].id) # {}

\* C13 (as claimed): whatever fails in a Service method, the caller receives a
\* ContentResourceError with code INVALID_INPUT, NOT_FOUND or SYSTEM_ERROR.
ClosedErrorTaxonomy ==
    \A p \in Procs :
        svc[p].pc = "failed"
            => /\ svc[p].err.class = "ContentResourceError"
               /\ svc[p].err.code \in {"INVALID_INPUT", "NOT_FOUND", "SYSTEM_ERROR"}

\* C14: getResource, updateResource, deleteResource and getVersionHistory of an id
\* (with otherwise valid arguments) that names no resource, or a soft-deleted one,
\* call neither update nor softDelete, leave storage as it was, and, once the lookup
\* has returned, have failed with NOT_FOUND.
NotFoundNoMutation ==
    \A p \in Procs :
        /\ TakesId(svc[p].op) /\ ~Invalid(svc[p])
        /\ svc[p].op = "updateResource"
              => svc[p].input.fields # Null \/ svc[p].input.content # Null \/ svc[p].input.hasTags
        /\ FindById(svc[p].snap, svc[p].id) = {}
        => /\ ~svc[p].mutating
           /\ committed = svc[p].snap
           /\ \/ svc[p].pc = "find"
              \/ svc[p].pc = "failed" /\ (svc[p].rejected \/ svc[p].err = NotFound)

\* a second deleteResource of a resource has failed with NOT_FOUND
NotFoundNoMutationWitness ==
    \E p \in Procs :
        /\ svc[p].op = "deleteResource" /\ svc[p].err = NotFound
        /\ Deleted(committed, svc[p].id)

SoftDeleteFrame ==
    /\ \A p \in Procs :
          Done(p, "softDelete")
              => /\ [committed EXCEPT !.resources = <<>>] = [proc[p].snap EXCEPT !.resources = <<>>]
                 /\ \A r \in DOMAIN committed.resources :
                       /\ r \in DOMAIN proc[p].snap.resources
                       /\ KeptBySoftDelete(committed.resources[r])
                              = KeptBySoftDelete(proc[p].snap.resources[r])
                       /\ r # proc[p].id => committed.resources[r] = proc[p].snap.resources[r]
                 /\ GetVersionHistory(committed, proc[p].id)
                        = GetVersionHistory(proc[p].snap, proc[p].id)
    /\ \A id \in DOMAIN committed.resources :
          Deleted(committed, id)
              => \A h \in GetVersionHistory(committed, id) :
                    Range(h) = VersionsOf(committed, id) /\ Len(h) = Cardinality(Range(h))
    /\ \A p \in Procs :
          Done(p, "getVersionHistory") /\ Deleted(committed, proc[p].id)
              => Range(proc[p].history) = VersionsOf(committed, proc[p].id)

\* getVersionHistory of a soft-deleted resource has returned its versions
SoftDeleteFrameWitness ==
    \E p \in Procs :
        /\ Done(p, "getVersionHistory") /\ Deleted(committed, proc[p].id)
        /\ proc[p].history # <<>>

\* C22 (as claimed): an updateResource whose own lookup found the resource, and whose
\* repository update then did not find it (it was soft-deleted in between, storage
\* did not fail), fails with NOT_FOUND and writes nothing.
UpdateRaceNotFound ==
    \A p \in Procs :
        /\ svc[p].op = "updateResource" /\ svc[p].pc = "failed"
        /\ Exists(svc[p].found) /\ svc[p].mutating
        /\ proc[p].op = "update" /\ proc[p].err = "not_found"
        => /\ svc[p].err = NotFound
           /\ OpsOf(p) = <<>>

\* the statements a transaction has issued so far, by kind
KindsOf(p) == [i \in 1..Len(OpsOf(p)) |-> OpsOf(p)[i].op.kind]

\* C23: the statements of a create come in the order resource insert, version insert,
\* pointer update, then tag and link inserts, and at every step, the intermediate
\* ones included, each version.resourceId, resource.currentVersionId, link.resourceId
\* and link.tagId written names a row that is already there.
CreateOrder ==
    /\ \A p \in Procs :
          proc[p].op = "create"
              => \A i \in 1..Len(KindsOf(p)) :
                    /\ i = 1 => KindsOf(p)[i] = "insertResource"
                    /\ i = 2 => KindsOf(p)[i] = "insertVersion"
                    /\ i = 3 => KindsOf(p)[i] = "setCurrentVersion"
                    /\ i > 3 => KindsOf(p)[i] \in {"insertTag", "insertLink"}
                    /\ i > 3 /\ KindsOf(p)[i - 1] = "insertTag" => KindsOf(p)[i] = "insertLink"
    /\ \A v \in DOMAIN View.versions : View.versions[v].resourceId \in DOMAIN View.resources
    /\ \A r \in DOMAIN View.resources :
          View.resources[r].currentVersionId # NoId
              => /\ View.resources[r].currentVersionId \in DOMAIN View.versions
                 /\ View.versions[View.resources[r].currentVersionId].resourceId = r
    /\ \A l \in View.links : l.resourceId \in DOMAIN View.resources /\ l.tagId \in DOMAIN View.tags

\* a create has issued its five statements (resource, version, pointer, tag, link)
\* and is about to commit
CreateOrderWitness ==
    \E p \in Procs :
        /\ proc[p].op = "create" /\ proc[p].pc = "commit"
        /\ KindsOf(p) = <<"insertResource", "insertVersion", "setCurrentVersion",
                          "insertTag", "insertLink">>

\* C24 (as claimed): a create or update given a tag list that repeats a label, and
\* not failed by storage or by a missing resource, succeeds and leaves the resource
\* one link row per distinct label.
DuplicateLabelsAsSet ==
    \A p \in Procs :
        /\ proc[p].op \in {"create", "update"} /\ proc[p].pc \in {"done", "failed"}
        /\ proc[p].input.hasTags
        /\ Len(proc[p].input.tags) > Cardinality(Range(proc[p].input.tags))
        /\ proc[p].err \notin {"storage", "not_found"}
        => /\ proc[p].pc = "done"
           /\ {committed.tags[l.tagId].label : l \in LinksOf(committed, proc[p].id)}
                  = Range(proc[p].input.tags)
           /\ Cardinality(LinksOf(committed, proc[p].id))
                  = Cardinality(Range(proc[p].input.tags))

\* C25: a successful update with tags [] leaves the resource no link row and the
\* tags table as it was; a successful create with tags omitted or [] leaves the new
\* resource no link row and the tags and link tables as they were.
EmptyTagLists ==
    \A p \in Procs :
        /\ Done(p, "update") /\ proc[p].input.hasTags /\ proc[p].input.tags = <<>>
              => /\ LinksOf(committed, proc[p].id) = {}
                 /\ committed.tags = proc[p].snap.tags
        /\ Done(p, "create") /\ (~proc[p].input.hasTags \/ proc[p].input.tags = <<>>)
              => /\ LinksOf(committed, proc[p].id) = {}
                 /\ committed.links = proc[p].snap.links
                 /\ committed.tags = proc[p].snap.tags

\* an update with tags [] and nothing else has removed the links a resource had
EmptyTagListsWitness ==
    \E p \in Procs :
        /\ Done(p, "update") /\ proc[p].input.hasTags /\ proc[p].input.tags = <<>>
        /\ proc[p].input.fields = Null /\ proc[p].input.content = Null
        /\ LinksOf(proc[p].snap, proc[p].id) # {}

\* C26: no step removes a committed row of the resources table or of the tags table:
\* the set of resource ids and the set of tag ids only grow.
NeverRemoved ==
    [][/\ DOMAIN committed.resources \subseteq DOMAIN committed'.resources
       /\ DOMAIN committed.tags \subseteq DOMAIN committed'.tags]_vars

\* an update has deleted a link row; the resource and the tag it named are still there
NeverRemovedWitness ==
    \E p \in Procs : \E l \in proc[p].snap.links :
        /\ Done(p, "update") /\ l \notin committed.links
        /\ l.resourceId \in DOMAIN committed.resources
        /\ l.tagId \in DOMAIN committed.tags

\* C28 (as claimed): once a resource is soft-deleted no step, the commit of an update
\* that began before the delete included, gives it a version, repoints its
\* currentVersionId, overwrites its fields or changes its link rows.
FrozenAfterDelete ==
    [][\A id \in DOMAIN committed.resources :
          Deleted(committed, id)
              => /\ VersionsOf(committed', id) = VersionsOf(committed, id)
                 /\ committed'.resources[id].currentVersionId
                        = committed.resources[id].currentVersionId
                 /\ committed'.resources[id].fields = committed.resources[id].fields
                 /\ LinksOf(committed', id) = LinksOf(committed, id)]_vars

====
